---- MODULE Spec2Model ----
(***************************************************************************)
(* Model of scripts/main.js: the image toggler and the name greeter.       *)
(*                                                                         *)
(* JavaScript values are tagged records: Null is the value null (returned  *)
(* by prompt() when the dialog is dismissed, by getItem for a missing key  *)
(* and by getAttribute for a missing attribute), Str(s) is the string s.   *)
(* prompt() blocks the page: a handler that reaches it is suspended until  *)
(* the user responds, so one action runs the script from one prompt        *)
(* response to the next prompt call or to the end of the handler.          *)
(***************************************************************************)
EXTENDS Integers, Sequences, FiniteSets

VARIABLES
    localStorage,   \* the persistent store: a function from keys to strings
    heading,        \* myHeading.textContent
    src,            \* the 'src' attribute of myImage
    imageOnclick,   \* myImage.onclick is assigned
    buttonOnclick,  \* myButton.onclick is assigned
    pc,             \* "start": script not run yet; "prompt": suspended in
                    \* prompt(); "idle": no script code is running
    stack,          \* myName of every setUserName frame suspended at its
                    \* recursive call (outermost first)
    caller,         \* who made the outermost setUserName call / last ran
    prompts,        \* history: prompt() calls of the current operation
    responses,      \* history: prompt responses of the current operation
    writes,         \* history: store and heading writes of the current operation
    stored0,        \* history: getItem('name') when the current operation began
    lastEntered,    \* history: the last non-empty prompt response
    src0,           \* history: the 'src' attribute the page markup supplied
    clicks,         \* history: image clicks since the page was parsed
    present,        \* the elements the page markup supplies
    error           \* line of the TypeError that ended the script, 0 if none

vars == <<localStorage, heading, src, imageOnclick, buttonOnclick, pc, stack,
          caller, prompts, responses, writes, stored0, lastEntered, src0, clicks,
          present, error>>

----------------------------------------------------------------------------
(* Bounds *)

\* the largest number of empty or declined responses in one operation
MaxRetries == 2

\* the largest number of image clicks counted on one page
MaxClicks == 3

----------------------------------------------------------------------------
(* JavaScript values *)

Null == [t |-> "null"]
Str(s) == [t |-> "str", v |-> s]

\* the names a user types at the prompt
Names == {"Jo", "Lee"}

\* what prompt() can return: null (dismissed), "" (OK on an empty field), a name
Responses == {Null, Str("")} \cup {Str(n) : n \in Names}

\* JavaScript string conversion of a string-or-null value
ToString(v) == IF v = Null THEN "null" ELSE v.v

\* !v for a string-or-null value
FalsyNoNull(v) == v = Str("")
FalsyInverted(v) == ~(v = Null \/ v = Str(""))
FalsyNoEmpty(v) == v = Null
Falsy(v) == v = Null \/ v = Str("")

----------------------------------------------------------------------------
(* Collaborators: the store and the page markup *)

NameKey == "name"

getItem(ls, k) == IF k \in DOMAIN ls THEN Str(ls[k]) ELSE Null

setItemRaw(ls, k, v) ==
    [x \in DOMAIN ls \cup {k} |-> IF x = k THEN (IF v = Null THEN "" ELSE v.v) ELSE ls[x]]
setItemKeep(ls, k, v) ==
    [x \in DOMAIN ls \cup {k} |-> IF x \in DOMAIN ls THEN ls[x] ELSE ToString(v)]
setItem(ls, k, v) ==
    [x \in DOMAIN ls \cup {k} |-> IF x = k THEN ToString(v) ELSE ls[x]]

DefaultSrc == "images/user-image.png"
AlternateSrc == "https://i5.walmartimages.com/asr/87061092-70de-4a9b-ae77-b0f20a9c54d5_1.520c5864c2391e9f24041a1faa3d5d3a.jpeg?odnWidth=612&odnHeight=612&odnBg=ffffff"

\* the src the page markup can give the image (the markup is not part of the script)
MarkupSrcs == {Null, Str(DefaultSrc), Str(AlternateSrc), Str("images/other.png")}

\* the heading text of the freshly parsed page
MarkupHeading == ""

\* the elements the script looks up with querySelector (lines 1, 12, 13)
Elements == {"img", "button", "h2"}

----------------------------------------------------------------------------
(* NameGreeter *)

GreetingNoBang(v) == "Welcome, " \o ToString(v)
Greeting(v) == "Welcome, " \o ToString(v) \o "!"

StoreWrite(s) == [target |-> "store", val |-> s]
HeadingWrite(s) == [target |-> "heading", val |-> s]
SrcWrite(s) == [target |-> "src", val |-> s]

\* lines 21-22, which every setUserName frame runs before it returns
ReturnHeadingFirst(st, myName) ==
    [ls  |-> setItem(st.ls, NameKey, myName),
     hd  |-> Greeting(myName),
     log |-> st.log \o <<HeadingWrite(Greeting(myName)), StoreWrite(ToString(myName))>>]
Return(st, myName) ==
    [ls  |-> setItem(st.ls, NameKey, myName),
     hd  |-> Greeting(myName),
     log |-> st.log \o <<StoreWrite(ToString(myName)), HeadingWrite(Greeting(myName))>>]

\* lines 21-22 when myHeading is null: the store is written, line 22 throws
ReturnThrows(st, myName) ==
    [ls  |-> setItem(st.ls, NameKey, myName),
     hd  |-> st.hd,
     log |-> st.log \o <<StoreWrite(ToString(myName))>>]

\* line 33: myButton.onclick = ..., a TypeError when myButton is null
BindButtonGuarded(els) == [bound |-> "button" \in els, err |-> 0]
BindButton(els) ==
    IF "button" \in els THEN [bound |-> TRUE, err |-> 0]
                        ELSE [bound |-> FALSE, err |-> 33]

\* the suspended frames return one after the other, innermost first
RECURSIVE Unwind(_, _)
Unwind(st, frames) ==
    IF frames = <<>> THEN st
    ELSE Unwind(Return(st, frames[Len(frames)]), SubSeq(frames, 1, Len(frames) - 1))

\* a call of setUserName from the top level or from the button: runs up to prompt()
CallSetUserName(who) ==
    /\ pc' = "prompt"
    /\ stack' = <<>>
    /\ caller' = who
    /\ prompts' = 1
    /\ responses' = <<>>
    /\ writes' = <<>>
    /\ stored0' = getItem(localStorage, NameKey)
    /\ UNCHANGED <<localStorage, lastEntered>>

\* the browser parses the page again: the DOM is the markup's, the store is kept
Reload ==
    /\ pc = "idle"
    /\ pc' = "start"
    /\ heading' = MarkupHeading
    /\ \E m \in MarkupSrcs : src' = m /\ src0' = m
    /\ clicks' = 0
    /\ imageOnclick' = FALSE
    /\ buttonOnclick' = FALSE
    /\ stack' = <<>>
    /\ caller' = "none"
    /\ prompts' = 0
    /\ responses' = <<>>
    /\ writes' = <<>>
    /\ stored0' = Null
    /\ error' = 0
    /\ UNCHANGED <<localStorage, lastEntered, present>>

\* the script runs from line 1 on the freshly parsed page
PageLoadBindsEarly ==
    /\ pc = "start"
    /\ IF "img" \notin present
       THEN /\ error' = 3
            /\ pc' = "idle"
            /\ stack' = <<>>
            /\ caller' = "load"
            /\ prompts' = 0
            /\ responses' = <<>>
            /\ writes' = <<>>
            /\ stored0' = getItem(localStorage, NameKey)
            /\ UNCHANGED <<localStorage, heading, imageOnclick, buttonOnclick, lastEntered>>
       ELSE /\ imageOnclick' = TRUE
            /\ IF Falsy(getItem(localStorage, NameKey))
               THEN /\ CallSetUserName("load")
                    /\ buttonOnclick' = TRUE
                    /\ error' = 0
                    /\ UNCHANGED heading
               ELSE /\ IF "h2" \in present
                       THEN /\ heading' = Greeting(getItem(localStorage, NameKey))
                            /\ writes' = <<HeadingWrite(Greeting(getItem(localStorage, NameKey)))>>
                            /\ buttonOnclick' = BindButton(present).bound
                            /\ error' = BindButton(present).err
                       ELSE /\ error' = 30
                            /\ writes' = <<>>
                            /\ UNCHANGED <<heading, buttonOnclick>>
                    /\ pc' = "idle"
                    /\ stack' = <<>>
                    /\ caller' = "load"
                    /\ prompts' = 0
                    /\ responses' = <<>>
                    /\ stored0' = getItem(localStorage, NameKey)
                    /\ UNCHANGED <<localStorage, lastEntered>>
    /\ UNCHANGED <<src, src0, clicks, present>>
PageLoad ==
    /\ pc = "start"
    /\ IF "img" \notin present
       THEN /\ error' = 3
            /\ pc' = "idle"
            /\ stack' = <<>>
            /\ caller' = "load"
            /\ prompts' = 0
            /\ responses' = <<>>
            /\ writes' = <<>>
            /\ stored0' = getItem(localStorage, NameKey)
            /\ UNCHANGED <<localStorage, heading, imageOnclick, buttonOnclick, lastEntered>>
       ELSE /\ imageOnclick' = TRUE
            /\ IF Falsy(getItem(localStorage, NameKey))
               THEN /\ CallSetUserName("load")
                    /\ buttonOnclick' = FALSE
                    /\ error' = 0
                    /\ UNCHANGED heading
               ELSE /\ IF "h2" \in present
                       THEN /\ heading' = Greeting(getItem(localStorage, NameKey))
                            /\ writes' = <<HeadingWrite(Greeting(getItem(localStorage, NameKey)))>>
                            /\ buttonOnclick' = BindButton(present).bound
                            /\ error' = BindButton(present).err
                       ELSE /\ error' = 30
                            /\ writes' = <<>>
                            /\ UNCHANGED <<heading, buttonOnclick>>
                    /\ pc' = "idle"
                    /\ stack' = <<>>
                    /\ caller' = "load"
                    /\ prompts' = 0
                    /\ responses' = <<>>
                    /\ stored0' = getItem(localStorage, NameKey)
                    /\ UNCHANGED <<localStorage, lastEntered>>
    /\ UNCHANGED <<src, src0, clicks, present>>

\* myButton.onclick
ButtonClick ==
    /\ pc = "idle"
    /\ buttonOnclick
    /\ CallSetUserName("button")
    /\ UNCHANGED <<heading, src, imageOnclick, buttonOnclick, src0, clicks,
                   present, error>>

\* the user answers the pending prompt with r
PromptRespond(r) ==
    /\ pc = "prompt"
    /\ responses' = Append(responses, r)
    /\ IF Falsy(r)
       THEN /\ Len(stack) < MaxRetries
            /\ stack' = Append(stack, r)
            /\ prompts' = prompts + 1
            /\ UNCHANGED <<localStorage, heading, buttonOnclick, pc, writes,
                           lastEntered, error>>
       ELSE LET st == IF "h2" \in present
                      THEN Unwind([ls |-> localStorage, hd |-> heading, log |-> writes],
                                  Append(stack, r))
                      ELSE ReturnThrows([ls |-> localStorage, hd |-> heading,
                                         log |-> writes], r)
            IN  /\ localStorage' = st.ls
                /\ heading' = st.hd
                /\ writes' = st.log
                /\ stack' = <<>>
                /\ pc' = "idle"
                /\ IF "h2" \notin present
                   THEN error' = 22 /\ UNCHANGED buttonOnclick
                   ELSE IF caller = "load"
                        THEN /\ buttonOnclick' = BindButton(present).bound
                             /\ error' = BindButton(present).err
                        ELSE UNCHANGED <<buttonOnclick, error>>
                /\ lastEntered' = r
                /\ UNCHANGED prompts
    /\ UNCHANGED <<src, imageOnclick, caller, stored0, src0, clicks, present>>

----------------------------------------------------------------------------
(* ImageToggler *)

ToggleStuck(mySrc) == Str(DefaultSrc)
ToggleStuckAlternate(mySrc) == Str(AlternateSrc)
ToggleSwapped(mySrc) == IF mySrc = Str(AlternateSrc) THEN Str(DefaultSrc) ELSE Str(AlternateSrc)
ToggleKnownOnly(mySrc) ==
    IF mySrc = Str(DefaultSrc) THEN Str(AlternateSrc)
    ELSE IF mySrc = Str(AlternateSrc) THEN Str(DefaultSrc) ELSE mySrc
Toggle(mySrc) == IF mySrc = Str(DefaultSrc) THEN Str(AlternateSrc) ELSE Str(DefaultSrc)

\* myImage.onclick
ImageClickRerenders ==
    /\ pc = "idle"
    /\ imageOnclick
    /\ clicks < MaxClicks
    /\ src' = Toggle(src)
    /\ clicks' = clicks + 1
    /\ caller' = "image"
    /\ prompts' = 0
    /\ responses' = <<>>
    /\ writes' = <<SrcWrite(ToString(Toggle(src))), HeadingWrite(MarkupHeading)>>
    /\ stored0' = getItem(localStorage, NameKey)
    /\ heading' = MarkupHeading
    /\ UNCHANGED <<localStorage, imageOnclick, buttonOnclick, pc, stack,
                   lastEntered, src0, present, error>>
ImageClick ==
    /\ pc = "idle"
    /\ imageOnclick
    /\ clicks < MaxClicks
    /\ src' = Toggle(src)
    /\ clicks' = clicks + 1
    /\ caller' = "image"
    /\ prompts' = 0
    /\ responses' = <<>>
    /\ writes' = <<SrcWrite(ToString(Toggle(src)))>>
    /\ stored0' = getItem(localStorage, NameKey)
    /\ UNCHANGED <<localStorage, heading, imageOnclick, buttonOnclick, pc, stack,
                   lastEntered, src0, present, error>>

\* the click handler of the stand-alone toggler script
Toggle000(mySrc) == IF mySrc = Str(DefaultSrc) THEN Str(AlternateSrc) ELSE Str(DefaultSrc)

\* the source the stand-alone toggler shows after n clicks from the source s
RECURSIVE Run000(_, _)
Run000(s, n) == IF n = 0 THEN s ELSE Toggle000(Run000(s, n - 1))

----------------------------------------------------------------------------
(* Specification *)

Parsed(els) ==
    /\ present = els
    /\ error = 0
    /\ localStorage = [k \in {} |-> ""]
    /\ heading = MarkupHeading
    /\ src \in MarkupSrcs
    /\ imageOnclick = FALSE
    /\ buttonOnclick = FALSE
    /\ pc = "start"
    /\ stack = <<>>
    /\ caller = "none"
    /\ prompts = 0
    /\ responses = <<>>
    /\ writes = <<>>
    /\ stored0 = Null
    /\ lastEntered = Null
    /\ src0 = src
    /\ clicks = 0

\* the page supplies the three elements the script expects
Init == Parsed(Elements)

\* the page may lack any of them
MissingInit == \E els \in SUBSET Elements : Parsed(els)

Next ==
    \/ PageLoad
    \/ Reload
    \/ ButtonClick
    \/ \E r \in Responses : PromptRespond(r)
    \/ ImageClick

Spec == Init /\ [][Next]_vars

\* the user eventually answers a pending prompt with a name
AcceptName == \E n \in Names : PromptRespond(Str(n))

LiveSpec == Spec /\ WF_vars(AcceptName)

MissingSpec == MissingInit /\ [][Next]_vars

----------------------------------------------------------------------------
(* Properties of the name greeter *)

IsName(r) == r \in {Str(n) : n \in Names}
EmptyOrDeclined(r) == r = Null \/ r = Str("")
Stored == localStorage[NameKey]
HasStored == NameKey \in DOMAIN localStorage
Completed == pc = "idle" /\ caller \in {"load", "button"}
WritesTo(tgt) == {i \in DOMAIN writes : writes[i].target = tgt}

\* C1: when the prompt returns k >= 1 empty strings and then a name n, the
\* value stored under 'name' once setUserName has returned is n.
C1_RetryResult ==
    (/\ Completed
     /\ Len(responses) >= 2
     /\ \A i \in 1..(Len(responses) - 1) : responses[i] = Str("")
     /\ IsName(responses[Len(responses)]))
    => (HasStored /\ Stored = responses[Len(responses)].v)

\* C2: every empty or declined response causes exactly one further prompt and
\* no prompt follows a non-empty response: k empty or declined responses and
\* then a non-empty one are k+1 prompts.
C2_RetryCount ==
    /\ pc = "prompt" =>
          /\ prompts = Len(responses) + 1
          /\ \A i \in DOMAIN responses : EmptyOrDeclined(responses[i])
    /\ (pc = "idle" /\ responses # <<>>) =>
          /\ prompts = Len(responses)
          /\ \A i \in 1..(Len(responses) - 1) : EmptyOrDeclined(responses[i])
          /\ ~EmptyOrDeclined(responses[Len(responses)])

C2_Witness ==
    /\ pc = "idle"
    /\ Len(responses) = 3
    /\ responses[1] = Str("") /\ responses[2] = Null /\ IsName(responses[3])
    /\ prompts = 3

\* C3: from a store with no value under 'name', a page load whose first
\* prompt returns the name n ends with n stored and the heading "Welcome, n!".
C3_RoundTrip ==
    (/\ pc = "idle" /\ caller = "load"
     /\ stored0 = Null
     /\ Len(responses) = 1 /\ IsName(responses[1]))
    => /\ HasStored /\ Stored = responses[1].v
       /\ heading = "Welcome, " \o responses[1].v \o "!"

C3_Witness ==
    /\ pc = "idle" /\ caller = "load"
    /\ stored0 = Null
    /\ responses = <<Str("Jo")>>
    /\ HasStored /\ Stored = "Jo"
    /\ heading = "Welcome, Jo!"

\* C4: a page load that finds a name s in the store sets the heading to
\* "Welcome, s!" and calls the prompt zero times.
C4_ShortCircuit ==
    (caller = "load" /\ stored0 # Null /\ stored0 # Str(""))
    => /\ pc = "idle"
       /\ prompts = 0
       /\ heading = "Welcome, " \o stored0.v \o "!"

C4_Witness ==
    /\ pc = "idle" /\ caller = "load"
    /\ stored0 = Str("Lee")
    /\ prompts = 0
    /\ heading = "Welcome, Lee!"

\* C5: with a name s stored, a button activation answered at once with the
\* name n leaves n stored and the heading "Welcome, n!"; the button prompts
\* whatever the store holds.
C5_ManualOverwrite ==
    /\ (/\ pc = "idle" /\ caller = "button"
        /\ IsName(stored0)
        /\ Len(responses) = 1 /\ IsName(responses[1]))
       => /\ HasStored /\ Stored = responses[1].v
          /\ heading = "Welcome, " \o responses[1].v \o "!"
    /\ caller = "button" => prompts >= 1

C5_Witness ==
    /\ pc = "idle" /\ caller = "button"
    /\ stored0 = Str("Jo")
    /\ responses = <<Str("Lee")>>
    /\ HasStored /\ Stored = "Lee"
    /\ heading = "Welcome, Lee!"

\* C6: a completed page load or button activation has written the heading
\* exactly once and the store at most once, however many empty or declined
\* responses came first.
C6_SingleRender ==
    Completed =>
        /\ Cardinality(WritesTo("heading")) = 1
        /\ Cardinality(WritesTo("store")) <= 1

\* C7: whenever no script code is running after initialization, the heading
\* is "Welcome, " followed by the value stored under 'name' and "!".
C7_GreetingMatchesStore ==
    pc = "idle" => (HasStored /\ heading = "Welcome, " \o Stored \o "!")

C7_Witness ==
    /\ pc = "idle" /\ caller = "button"
    /\ Len(responses) = 2
    /\ responses[1] = Null
    /\ HasStored /\ heading = "Welcome, " \o Stored \o "!"

\* C8: every value written under 'name' or rendered by setUserName is a
\* non-empty string the user entered; an empty or declined response is never
\* written.
C8_OnlyAcceptedNames ==
    /\ HasStored => Stored \in Names
    /\ \A i \in WritesTo("store") :
          /\ writes[i].val \in Names
          /\ \E j \in DOMAIN responses : responses[j] = Str(writes[i].val)

\* C9: once the store holds a name, it still holds a non-empty name after
\* every completed button activation.
C9_SetAbsorbing ==
    (pc = "idle" /\ caller = "button" /\ ~EmptyOrDeclined(stored0))
    => (HasStored /\ Stored # "")

\* C10: once the user has entered a name, a later page load renders the
\* greeting for the name last entered and does not prompt.
C10_PersistsAcrossReloads ==
    [][(PageLoad /\ lastEntered # Null)
         => (/\ pc' = "idle"
             /\ prompts' = 0
             /\ heading' = "Welcome, " \o lastEntered.v \o "!")]_vars

----------------------------------------------------------------------------
(* Properties of the image toggler *)

KnownSrcs == {Str(DefaultSrc), Str(AlternateSrc)}

\* C11: when the markup's source is the default value, after n clicks the
\* source is the default value if and only if n is even, and the alternate
\* value otherwise.
C11_ToggleAlternation ==
    src0 = Str(DefaultSrc) =>
        /\ (src = Str(DefaultSrc)) <=> (clicks % 2 = 0)
        /\ (clicks % 2 = 1) => src = Str(AlternateSrc)

C11_Witness ==
    /\ src0 = Str(DefaultSrc)
    /\ clicks = 2
    /\ src = Str(DefaultSrc)

\* C12: a click on an image whose source is not the default value (the
\* alternate value, any other string or a missing attribute) sets the source
\* to the default value.
C12_ToggleTotality ==
    [][(ImageClick /\ src # Str(DefaultSrc)) => src' = Str(DefaultSrc)]_vars

C12_Witness ==
    /\ caller = "image"
    /\ clicks = 1
    /\ src0 \in {Null, Str("images/other.png")}
    /\ src = Str(DefaultSrc)

\* C13 (as stated): in every reachable state the image's source is one of the
\* two known values.
C13_SrcAlwaysKnown == src \in KnownSrcs

\* C13 (amended): after the first click on a page the image's source is one of
\* the two known values, whatever the markup supplied.
C13_SrcKnownAfterClick == clicks >= 1 => src \in KnownSrcs

C13_Witness ==
    /\ clicks >= 1
    /\ src0 \notin KnownSrcs
    /\ src \in KnownSrcs

----------------------------------------------------------------------------
(* Further properties of the name greeter *)

\* C14: a page load prompts if and only if the store has no value under
\* 'name'; with any stored string it does not prompt.
C14_PromptIffAbsent ==
    caller = "load" => ((prompts >= 1) <=> (stored0 = Null))

\* C15: a page load that finds a value in the store writes nothing to the
\* store and leaves the stored value as it was.
C15_ReadOnlyLoad ==
    (pc = "idle" /\ caller = "load" /\ stored0 # Null)
    => (WritesTo("store") = {} /\ getItem(localStorage, NameKey) = stored0)

\* C16: an image click leaves the store and the heading unchanged and writes
\* only the image source; the page-load script, a button activation and a
\* prompt response leave the image source unchanged and never write it.
C16_Independence ==
    [][/\ ImageClick =>
            /\ UNCHANGED <<localStorage, heading>>
            /\ \A i \in DOMAIN writes' : writes'[i].target = "src"
       /\ (PageLoad \/ ButtonClick \/ \E r \in Responses : PromptRespond(r)) =>
            /\ UNCHANGED src
            /\ \A i \in DOMAIN writes' : writes'[i].target # "src"]_vars

C16_Witness ==
    /\ pc = "idle" /\ caller = "button"
    /\ clicks >= 1
    /\ src = Str(AlternateSrc)
    /\ heading = "Welcome, Lee!"

\* C17: setUserName returns to its original caller only after some prompt
\* returned a non-empty value; while every response so far is empty or
\* declined the call is still pending and the store is as it was.
C17_NoEscape ==
    /\ (Completed /\ prompts >= 1) =>
          \E i \in DOMAIN responses : ~EmptyOrDeclined(responses[i])
    /\ (/\ caller \in {"load", "button"}
        /\ prompts >= 1
        /\ \A i \in DOMAIN responses : EmptyOrDeclined(responses[i])) =>
          /\ pc = "prompt"
          /\ writes = <<>>
          /\ getItem(localStorage, NameKey) = stored0

C17_Witness ==
    /\ pc = "prompt" /\ caller = "load"
    /\ responses = <<Null, Str("")>>
    /\ ~HasStored

\* C18: if the user eventually gives a non-empty response, every page load
\* and button activation that prompts eventually completes, and it ends with
\* a non-empty name stored and the button handler bound.
C18_EventualCompletion ==
    /\ (pc = "prompt") ~> (pc = "idle" /\ stack = <<>>)
    /\ []((Completed /\ prompts >= 1) =>
            (buttonOnclick /\ HasStored /\ Stored # ""))

\* C19: while a prompt is pending only the operation that issued it is in
\* progress: no click handler starts, the frames on the stack are the retries
\* of that one operation, and the button handler is not bound before the
\* page-load script has finished.
C19_NoOverlap ==
    /\ [](pc = "prompt" =>
            /\ caller \in {"load", "button"}
            /\ stack = responses
            /\ Len(stack) = prompts - 1
            /\ caller = "load" => ~buttonOnclick)
    /\ [](pc = "start" => ~buttonOnclick)
    /\ [][(ImageClick \/ ButtonClick) => (pc = "idle" /\ stack = <<>>)]_vars

C19_Witness ==
    /\ pc = "prompt" /\ caller = "load"
    /\ Len(stack) = 2
    /\ imageOnclick /\ ~buttonOnclick

\* C20: an image click writes the source attribute exactly once, within the
\* handler, and the written value differs from the source before the click.
C20_OneMutationPerClick ==
    [][ImageClick =>
         /\ Len(writes') = 1
         /\ writes'[1] = SrcWrite(ToString(src'))
         /\ src' # src
         /\ pc' = "idle"]_vars

C20_Witness ==
    /\ caller = "image"
    /\ clicks = 2
    /\ writes = <<SrcWrite(ToString(src))>>

----------------------------------------------------------------------------
(* Order of the writes, and the two togglers *)

TextOf(r) == IF r = Null THEN "null" ELSE r.v

\* C21: every setUserName frame writes its own response to the store and then
\* to the heading once its nested call has returned, so a chain of k+1
\* prompts makes k+1 store writes and k+1 heading writes, the last response
\* first and the first response last.
C21_WriteOrder ==
    (Completed /\ prompts >= 1) =>
        /\ Len(writes) = 2 * prompts
        /\ Cardinality(WritesTo("store")) = prompts
        /\ Cardinality(WritesTo("heading")) = prompts
        /\ \A j \in 1..prompts :
              /\ writes[2 * j - 1] =
                    [target |-> "store", val |-> TextOf(responses[prompts - j + 1])]
              /\ writes[2 * j] =
                    [target |-> "heading",
                     val |-> "Welcome, " \o TextOf(responses[prompts - j + 1]) \o "!"]

C21_Witness ==
    /\ Completed
    /\ responses = <<Str(""), Null, Str("Jo")>>
    /\ Len(writes) = 6
    /\ writes[1].val = "Jo" /\ writes[3].val = "null" /\ writes[5].val = ""

\* C23: the stand-alone toggler and the toggler of main.js give the same next
\* source for every current source, so after any number of clicks from the
\* same start they show the same source.
C23_EquivalentTogglers == src = Run000(src0, clicks)

C23_Witness ==
    /\ clicks = 3
    /\ src0 = Str("images/other.png")
    /\ src = Run000(src0, 3)
    /\ src = Str(DefaultSrc)

----------------------------------------------------------------------------
(* Missing elements *)

\* the line of the first dereference of a missing element on the path taken
ExpectedError ==
    IF "img" \notin present THEN {3}
    ELSE IF "h2" \notin present THEN {22, 30}
    ELSE IF "button" \notin present THEN {33}
    ELSE {0}

\* C22: when the image, button or heading element is absent the script fails
\* at the first dereference of that element and runs nothing after it; with
\* all three present nothing raises an error.
C22_MissingElement ==
    /\ present = Elements => error = 0
    /\ pc \in {"start", "prompt"} => error = 0
    /\ pc = "idle" => error \in ExpectedError
    /\ error # 0 => (pc = "idle" /\ stack = <<>> /\ ~buttonOnclick)
    /\ (error = 3 /\ caller = "load") =>
          (~imageOnclick /\ prompts = 0 /\ writes = <<>>)
    /\ (error = 22 /\ caller = "load") =>
          (/\ prompts >= 1
           /\ writes = <<[target |-> "store", val |-> TextOf(responses[prompts])]>>
           /\ stored0 \in {Null, Str("")})
    /\ (error = 30 /\ caller = "load") =>
          (prompts = 0 /\ writes = <<>> /\ stored0 \notin {Null, Str("")})
    /\ (error = 33 /\ caller = "load") =>
          (WritesTo("heading") # {} /\ imageOnclick)

C22_Witness ==
    /\ present = {"img", "button"}
    /\ pc = "idle" /\ caller = "load"
    /\ error = 22
    /\ responses = <<Str(""), Str("Jo")>>
    /\ writes = <<[target |-> "store", val |-> "Jo"]>>

====
